---------------------------- MODULE Spec2Model ----------------------------
(***************************************************************************)
(* Fetch-and-aggregate pipeline of awesome-claude-agents:                  *)
(*   scripts/utils/fetcher.py     Fetcher (cache, fetch_json, branch       *)
(*                                fallback, file download, markdown parse) *)
(*   scripts/utils/validators.py  Validator                                *)
(*   scripts/agent_scraper.py     cmd_generate_readme (aggregation loop)   *)
(*                                                                         *)
(* Python values are tagged records: None, str (a sequence of characters), *)
(* int, bool, list and dict (a sequence of <<key, value>> pairs in         *)
(* insertion order).  The transport (requests.Session.get) is the          *)
(* environment: every GET is answered by a response drawn from a set.      *)
(***************************************************************************)
EXTENDS Integers, Sequences, FiniteSets, TLC

VARIABLES
    now,               \* time.time(), in ticks
    cache,             \* Fetcher.cache: cache key -> {data, timestamp}
    input,             \* arguments and transport answers of the call under study
    ret,               \* the call that has just returned: arguments, GETs issued, outcome
    pc,                \* cmd_generate_readme: position in the aggregation loop
    sources,           \* cmd_generate_readme: config.get_enabled_sources()
    si,                \* cmd_generate_readme: index of the source being processed
    repositories,      \* cmd_generate_readme: candidates of the current source
    ri,                \* cmd_generate_readme: index of the repository being processed
    all_repositories,  \* cmd_generate_readme: the repository collection
    all_agents,        \* cmd_generate_readme: the agent collection
    runs               \* the collections of the passes of the loop already completed

vars == <<now, cache, input, ret, pc, sources, si, repositories, ri,
          all_repositories, all_agents, runs>>

fetcherVars == <<now, cache>>
loopVars == <<pc, sources, si, repositories, ri, all_repositories, all_agents, runs>>

-----------------------------------------------------------------------------
(* Bounds of the model *)

MaxTime == 4           \* the clock runs 0..MaxTime
cache_ttl == 2         \* Fetcher(cache_ttl=...) in ticks

-----------------------------------------------------------------------------
(* Python values *)

None == [t |-> "None"]
PyStr(chars) == [t |-> "str", s |-> chars]
PyInt(n) == [t |-> "int", n |-> n]
PyBool(b) == [t |-> "bool", b |-> b]
PyList(items) == [t |-> "list", items |-> items]
PyDict(items) == [t |-> "dict", items |-> items]

IsStr(v) == v.t = "str"
IsList(v) == v.t = "list"
IsDict(v) == v.t = "dict"

\* bool(v)
Truthy(v) ==
    CASE v.t = "None" -> FALSE
      [] v.t = "str"  -> Len(v.s) > 0
      [] v.t = "url"  -> TRUE          \* a URL is a non-empty str
      [] v.t = "int"  -> v.n # 0
      [] v.t = "bool" -> v.b
      [] v.t = "list" -> Len(v.items) > 0
      [] v.t = "dict" -> Len(v.items) > 0

\* key in d
DictHas(d, k) == \E i \in 1..Len(d.items) : d.items[i][1] = k

\* d.get(k, default)
DictGet(d, k, default) ==
    IF DictHas(d, k)
    THEN d.items[CHOOSE i \in 1..Len(d.items) : d.items[i][1] = k][2]
    ELSE default

\* an assignment that always adds a pair, also when the key is there already
DictSet_append(d, k, v) == PyDict(Append(d.items, <<k, v>>))

\* d[k] = v : an existing key keeps its position, a new key goes last
DictSet(d, k, v) ==
    IF DictHas(d, k)
    THEN PyDict([i \in 1..Len(d.items) |->
                    IF d.items[i][1] = k THEN <<k, v>> ELSE d.items[i]])
    ELSE PyDict(Append(d.items, <<k, v>>))

-----------------------------------------------------------------------------
(* Transport: what session.get(url) followed by raise_for_status() can do *)

TransportError == [kind |-> "transport_error"]       \* get() raises (timeout, connection)
HttpError == [kind |-> "http_error", status |-> 404] \* raise_for_status() raises
NotJson == [kind |-> "ok", json |-> [t |-> "invalid"], text |-> <<>>]  \* 200, .json() raises
OkJson(v) == [kind |-> "ok", json |-> v, text |-> <<>>]                 \* 200, body parses to v
OkText(txt) == [kind |-> "ok", json |-> [t |-> "invalid"], text |-> txt] \* 200, raw text

\* get() or raise_for_status() raises requests.exceptions.RequestException
RaisesRequestException(resp) == resp.kind # "ok"

\* response.json() raises requests.exceptions.JSONDecodeError, which is both a
\* RequestException and a json.JSONDecodeError
RaisesJSONDecodeError(resp) == resp.kind = "ok" /\ resp.json.t = "invalid"

Returned(v) == [kind |-> "return", value |-> v]
Raised(e) == [kind |-> "raise", exc |-> e]

\* a str holding the address of a source list endpoint
SourceUrl(id) == [t |-> "url", kind |-> "source", id |-> id]


-----------------------------------------------------------------------------
(* Fetcher: the cache (fetcher.py 25-54) *)

\* hashlib.md5(url.encode()).hexdigest(): one key per URL
_get_cache_key(url) == [md5 |-> url]

\* off by one: an entry aged exactly cache_ttl still counts as valid
_is_cache_valid_inclusive(cache_entry, t) ==
    IF "timestamp" \notin DOMAIN cache_entry
    THEN FALSE
    ELSE (t - cache_entry.timestamp) <= cache_ttl

_is_cache_valid(cache_entry, t) ==
    IF "timestamp" \notin DOMAIN cache_entry
    THEN FALSE
    ELSE (t - cache_entry.timestamp) < cache_ttl

\* del self.cache[cache_key]
CacheDel(c, k) == [x \in DOMAIN c \ {k} |-> c[x]]

\* returns the value handed back and the cache as the lookup leaves it
_get_cached_data(c, t, url) ==
    LET cache_key == _get_cache_key(url) IN
    IF cache_key \in DOMAIN c
    THEN IF _is_cache_valid(c[cache_key], t)
         THEN [value |-> c[cache_key].data, cache |-> c]
         ELSE [value |-> None, cache |-> CacheDel(c, cache_key)]
    ELSE [value |-> None, cache |-> c]

\* a store that starts from an empty dict: the entries of the other URLs
\* are lost
_set_cached_data_alone(c, t, url, data) ==
    LET cache_key == _get_cache_key(url) IN
    [x \in {cache_key} |-> [data |-> data, timestamp |-> t]]

_set_cached_data(c, t, url, data) ==
    LET cache_key == _get_cache_key(url) IN
    [x \in DOMAIN c \cup {cache_key} |->
        IF x = cache_key THEN [data |-> data, timestamp |-> t] ELSE c[x]]

-----------------------------------------------------------------------------
(* Fetcher.fetch_json (fetcher.py 56-85) *)

\* t: time.time() at the lookup; d: ticks the GET takes, so that a store
\* happens at t + d.  Yields the value returned, the cache afterwards, the
\* GETs issued and the clock at return.
fetch_json(c, t, url, resp, d) ==
    LET hit == _get_cached_data(c, t, url) IN
    IF hit.value # None
    THEN [value |-> hit.value, cache |-> hit.cache, gets |-> <<>>, now |-> t]
    ELSE IF RaisesRequestException(resp) \/ RaisesJSONDecodeError(resp)
         THEN [value |-> None, cache |-> hit.cache, gets |-> <<url>>, now |-> t + d]
         ELSE [value |-> resp.json,
               cache |-> _set_cached_data(hit.cache, t + d, url, resp.json),
               gets |-> <<url>>, now |-> t + d]

-----------------------------------------------------------------------------
(* Fetcher.fetch_agent_repos_from_source (fetcher.py 87-107) *)

\* repo_data["id"] = repo_id; repo_data["source_url"] = url, on every value
\* of the mapping that is itself a mapping.  The values are the objects the
\* payload holds, so the payload itself carries the stamps afterwards.
StampRepos(data, url) ==
    PyDict([i \in 1..Len(data.items) |->
        LET repo_id == data.items[i][1]
            repo_data == data.items[i][2]
        IN  IF IsDict(repo_data)
            THEN <<repo_id, DictSet(DictSet(repo_data, "id", PyStr(<<repo_id>>)),
                                    "source_url", url)>>
            ELSE data.items[i]])

\* the values taken from the last entry of the mapping to the first
RECURSIVE DictValuesOf_reversed(_)
DictValuesOf_reversed(items) ==
    IF items = <<>> THEN <<>>
    ELSE IF IsDict(Head(items)[2])
         THEN DictValuesOf_reversed(Tail(items)) \o <<Head(items)[2]>>
         ELSE DictValuesOf_reversed(Tail(items))

\* repos: the values of the stamped mapping that are mappings, in iteration order
RECURSIVE DictValuesOf(_)
DictValuesOf(items) ==
    IF items = <<>> THEN <<>>
    ELSE IF IsDict(Head(items)[2])
         THEN <<Head(items)[2]>> \o DictValuesOf(Tail(items))
         ELSE DictValuesOf(Tail(items))

fetch_agent_repos_from_source(c, t, source_config, resp, d) ==
    LET url == DictGet(source_config, "url", None) IN
    IF ~Truthy(url)
    THEN [out |-> Returned(<<>>), cache |-> c, gets |-> <<>>, now |-> t]
    ELSE LET f == fetch_json(c, t, url, resp, d)
             data == f.value
         IN  IF ~Truthy(data)
             THEN [out |-> Returned(<<>>), cache |-> f.cache, gets |-> f.gets, now |-> f.now]
             ELSE IF ~IsDict(data)
                  \* data.items(): 'list' / 'int' / 'str' object has no attribute 'items'
                  THEN [out |-> Raised("AttributeError"), cache |-> f.cache,
                        gets |-> f.gets, now |-> f.now]
                  ELSE LET stamped == StampRepos(data, url)
                           key == _get_cache_key(url)
                       IN  [out |-> Returned(DictValuesOf(stamped.items)),
                            \* the cached payload is the object that was stamped
                            cache |-> [f.cache EXCEPT ![key].data = stamped],
                            gets |-> f.gets, now |-> f.now]

-----------------------------------------------------------------------------
(* Python str methods, on sequences of characters *)

IsSpace(ch) == ch \in {" ", "\n", "\t"}

RECURSIVE LStrip(_)
LStrip(s) == IF s # <<>> /\ IsSpace(Head(s)) THEN LStrip(Tail(s)) ELSE s

RECURSIVE RStrip(_)
RStrip(s) ==
    IF s # <<>> /\ IsSpace(s[Len(s)]) THEN RStrip(SubSeq(s, 1, Len(s) - 1)) ELSE s

\* s.strip()
Strip(s) == RStrip(LStrip(s))

\* s.startswith(p)
StartsWith(s, p) == Len(s) >= Len(p) /\ SubSeq(s, 1, Len(p)) = p

\* s.endswith(p)
EndsWith(s, p) == Len(s) >= Len(p) /\ SubSeq(s, Len(s) - Len(p) + 1, Len(s)) = p

\* s.split(sep) for a one-character separator: always at least one piece
RECURSIVE SplitAcc(_, _, _)
SplitAcc(s, sep, cur) ==
    IF s = <<>> THEN <<cur>>
    ELSE IF Head(s) = sep
         THEN <<cur>> \o SplitAcc(Tail(s), sep, <<>>)
         ELSE SplitAcc(Tail(s), sep, Append(cur, Head(s)))

Split(s, sep) == SplitAcc(s, sep, <<>>)

\* s.replace(old, new): every non-overlapping occurrence, left to right
RECURSIVE Replace(_, _, _)
Replace(s, old, new) ==
    IF s = <<>> THEN <<>>
    ELSE IF StartsWith(s, old)
         THEN new \o Replace(SubSeq(s, Len(old) + 1, Len(s)), old, new)
         ELSE <<Head(s)>> \o Replace(Tail(s), old, new)

LowerCase == <<"a","b","c","d","e","f","g","h","i","j","k","l","m",
               "n","o","p","q","r","s","t","u","v","w","x","y","z">>
UpperCase == <<"A","B","C","D","E","F","G","H","I","J","K","L","M",
               "N","O","P","Q","R","S","T","U","V","W","X","Y","Z">>

IsLower(ch) == \E i \in 1..Len(LowerCase) : LowerCase[i] = ch
IsUpper(ch) == \E i \in 1..Len(UpperCase) : UpperCase[i] = ch
IsCased(ch) == IsLower(ch) \/ IsUpper(ch)
ToUpper(ch) ==
    IF IsLower(ch) THEN UpperCase[CHOOSE i \in 1..Len(LowerCase) : LowerCase[i] = ch] ELSE ch
ToLower(ch) ==
    IF IsUpper(ch) THEN LowerCase[CHOOSE i \in 1..Len(UpperCase) : UpperCase[i] = ch] ELSE ch

\* s.title(): a cased character is upper-cased when the character before it
\* is not cased, and lower-cased otherwise
RECURSIVE TitleAcc(_, _)
TitleAcc(s, prevCased) ==
    IF s = <<>> THEN <<>>
    ELSE LET ch == Head(s) IN
         IF IsCased(ch)
         THEN <<IF prevCased THEN ToLower(ch) ELSE ToUpper(ch)>> \o TitleAcc(Tail(s), TRUE)
         ELSE <<ch>> \o TitleAcc(Tail(s), FALSE)

Title(s) == TitleAcc(s, FALSE)

\* sep.join(lines)
RECURSIVE Join(_, _)
Join(lines, sep) ==
    IF lines = <<>> THEN <<>>
    ELSE IF Len(lines) = 1 THEN Head(lines)
         ELSE Head(lines) \o sep \o Join(Tail(lines), sep)

-----------------------------------------------------------------------------
(* Fetcher._parse_agent_markdown (fetcher.py 233-273) *)

\* the for loop over the lines (fetcher.py 249-264); st carries name,
\* in_description and description_lines
RECURSIVE ParseLines(_, _)
ParseLines(lines, st) ==
    IF lines = <<>> THEN st
    ELSE LET line == Strip(Head(lines)) IN
         IF StartsWith(line, <<"#", " ">>)
         THEN LET title == Strip(SubSeq(line, 3, Len(line))) IN
              ParseLines(Tail(lines),
                         IF title # <<>> THEN [st EXCEPT !.name = title] ELSE st)
         ELSE IF line # <<>> /\ ~StartsWith(line, <<"#">>) /\ ~st.in_description
         THEN ParseLines(Tail(lines),
                         [st EXCEPT !.in_description = TRUE,
                                    !.description_lines = Append(@, line)])
         ELSE IF line # <<>> /\ st.in_description
         THEN ParseLines(Tail(lines), [st EXCEPT !.description_lines = Append(@, line)])
         ELSE IF line = <<>> /\ st.in_description
         THEN st                                       \* break
         ELSE ParseLines(Tail(lines), st)

\* content and filename are str; the result is the agent_data dict.  No
\* statement of the try block raises on str arguments, so the except branch
\* (return None) is not taken.
_parse_agent_markdown(content, filename) ==
    LET lines == Split(Strip(content), "\n")
        name0 == Title(Replace(Replace(filename, <<".", "m", "d">>, <<>>), <<"-">>, <<" ">>))
        st == ParseLines(lines, [name |-> name0, in_description |-> FALSE,
                                 description_lines |-> <<>>])
    IN  [name |-> PyStr(st.name),
         description |-> PyStr(IF st.description_lines # <<>>
                               THEN Strip(Join(st.description_lines, <<" ">>))
                               ELSE <<>>),
         category |-> PyStr(<<"General">>)]

-----------------------------------------------------------------------------
(* Fetcher.fetch_agent_manifest (fetcher.py 109-151) *)

Main == PyStr(<<"main">>)
Master == PyStr(<<"master">>)
Develop == PyStr(<<"develop">>)
Development == PyStr(<<"development">>)
Dev == PyStr(<<"dev">>)

\* the elif of fetcher.py 119 left out: "master" gets no alternates
branch_attempts_no_master(repo_branch) ==
    <<repo_branch>> \o
    (IF repo_branch = Main THEN <<Master, Develop, Development, Dev>> ELSE <<>>)

\* fetcher.py 116-120
branch_attempts(repo_branch) ==
    <<repo_branch>> \o
    (IF repo_branch = Main THEN <<Master, Develop, Development, Dev>>
     ELSE IF repo_branch = Master THEN <<Main, Develop, Development, Dev>>
     ELSE <<>>)

\* f"https://api.github.com/repos/{repo_owner}/{repo_name}/contents/{agents_path}?ref={attempt_branch}"
api_url(repo_owner, repo_name, agents_path, attempt_branch) ==
    [t |-> "url", kind |-> "contents", owner |-> repo_owner, name |-> repo_name,
     path |-> agents_path, ref |-> attempt_branch]

DotMd == <<".", "m", "d">>
FileType == PyStr(<<"file">>)

\* the loop without the test of item.get('type'): a directory whose name
\* ends in ".md" is collected too
RECURSIVE ExtractAgentFiles_any_type(_, _)
ExtractAgentFiles_any_type(contents, agent_files) ==
    IF contents = <<>> THEN [exc |-> "none", agent_files |-> agent_files]
    ELSE LET item == Head(contents) IN
         IF ~IsDict(item)
         THEN [exc |-> "AttributeError", agent_files |-> agent_files]
         ELSE LET name == DictGet(item, "name", PyStr(<<>>)) IN
              IF ~IsStr(name)
              THEN [exc |-> "AttributeError", agent_files |-> agent_files]
              ELSE IF ~EndsWith(name.s, DotMd)
              THEN ExtractAgentFiles_any_type(Tail(contents), agent_files)
              ELSE IF ~DictHas(item, "path") \/ ~DictHas(item, "download_url")
              THEN [exc |-> "KeyError", agent_files |-> agent_files]
              ELSE ExtractAgentFiles_any_type(Tail(contents),
                      Append(agent_files,
                             [name |-> DictGet(item, "name", None),
                              path |-> DictGet(item, "path", None),
                              download_url |-> DictGet(item, "download_url", None)]))

\* the for loop over contents (fetcher.py 134-140): the agent_files collected, or
\* the exception the first offending item raises
RECURSIVE ExtractAgentFiles(_, _)
ExtractAgentFiles(contents, agent_files) ==
    IF contents = <<>> THEN [exc |-> "none", agent_files |-> agent_files]
    ELSE LET item == Head(contents) IN
         IF ~IsDict(item)
         THEN [exc |-> "AttributeError", agent_files |-> agent_files]  \* item.get
         ELSE IF DictGet(item, "type", None) # FileType
         THEN ExtractAgentFiles(Tail(contents), agent_files)
         ELSE LET name == DictGet(item, "name", PyStr(<<>>)) IN
              IF ~IsStr(name)
              THEN [exc |-> "AttributeError", agent_files |-> agent_files]  \* .endswith
              ELSE IF ~EndsWith(name.s, DotMd)
              THEN ExtractAgentFiles(Tail(contents), agent_files)
              ELSE IF ~DictHas(item, "path") \/ ~DictHas(item, "download_url")
              THEN [exc |-> "KeyError", agent_files |-> agent_files]
              ELSE ExtractAgentFiles(Tail(contents),
                      Append(agent_files,
                             [name |-> DictGet(item, "name", None),
                              path |-> DictGet(item, "path", None),
                              download_url |-> DictGet(item, "download_url", None)]))

\* the loop without its early return: a successful listing is remembered and
\* the remaining candidates are still requested
RECURSIVE ManifestLoop_no_stop(_, _, _, _, _, _, _)
ManifestLoop_no_stop(attempts, i, repo_owner, repo_name, agents_path, svc, gets) ==
    IF i > Len(attempts) THEN [out |-> Returned(None), gets |-> gets]
    ELSE LET url == api_url(repo_owner, repo_name, agents_path, attempts[i])
             response == svc[url]
             gets1 == Append(gets, url)
             next == ManifestLoop_no_stop(attempts, i + 1, repo_owner, repo_name,
                                          agents_path, svc, gets1)
         IN  IF RaisesRequestException(response) \/ RaisesJSONDecodeError(response)
             THEN next
             ELSE IF ~IsList(response.json)
             THEN next
             ELSE LET x == ExtractAgentFiles(response.json.items, <<>>) IN
                  IF x.exc # "none"
                  THEN [out |-> Raised(x.exc), gets |-> gets1]
                  ELSE IF x.agent_files # <<>>
                  THEN [out |-> Returned([agent_files |-> x.agent_files]), gets |-> next.gets]
                  ELSE next

\* the loop with break in place of continue: the first failed request ends
\* the search
RECURSIVE ManifestLoop_break(_, _, _, _, _, _, _)
ManifestLoop_break(attempts, i, repo_owner, repo_name, agents_path, svc, gets) ==
    IF i > Len(attempts) THEN [out |-> Returned(None), gets |-> gets]
    ELSE LET url == api_url(repo_owner, repo_name, agents_path, attempts[i])
             response == svc[url]
             gets1 == Append(gets, url)
             next == ManifestLoop_break(attempts, i + 1, repo_owner, repo_name,
                                        agents_path, svc, gets1)
         IN  IF RaisesRequestException(response) \/ RaisesJSONDecodeError(response)
             THEN [out |-> Returned(None), gets |-> gets1]
             ELSE IF ~IsList(response.json)
             THEN next
             ELSE LET x == ExtractAgentFiles(response.json.items, <<>>) IN
                  IF x.exc # "none"
                  THEN [out |-> Raised(x.exc), gets |-> gets1]
                  ELSE IF x.agent_files # <<>>
                  THEN [out |-> Returned([agent_files |-> x.agent_files]), gets |-> gets1]
                  ELSE next

\* the loop with one retry: a failed request is issued a second time before
\* the next candidate is tried
RECURSIVE ManifestLoop_retry(_, _, _, _, _, _, _)
ManifestLoop_retry(attempts, i, repo_owner, repo_name, agents_path, svc, gets) ==
    IF i > Len(attempts) THEN [out |-> Returned(None), gets |-> gets]
    ELSE LET url == api_url(repo_owner, repo_name, agents_path, attempts[i])
             response == svc[url]
             gets1 == Append(gets, url)
         IN  IF RaisesRequestException(response) \/ RaisesJSONDecodeError(response)
             THEN ManifestLoop_retry(attempts, i + 1, repo_owner, repo_name,
                                     agents_path, svc, Append(gets1, url))
             ELSE IF ~IsList(response.json)
             THEN ManifestLoop_retry(attempts, i + 1, repo_owner, repo_name,
                                     agents_path, svc, gets1)
             ELSE LET x == ExtractAgentFiles(response.json.items, <<>>) IN
                  IF x.exc # "none"
                  THEN [out |-> Raised(x.exc), gets |-> gets1]
                  ELSE IF x.agent_files # <<>>
                  THEN [out |-> Returned([agent_files |-> x.agent_files]), gets |-> gets1]
                  ELSE ManifestLoop_retry(attempts, i + 1, repo_owner, repo_name,
                                          agents_path, svc, gets1)

\* the for loop over branch_attempts from attempt i on (fetcher.py 122-151);
\* svc answers each GET; gets are the URLs requested so far
RECURSIVE ManifestLoop(_, _, _, _, _, _, _)
ManifestLoop(attempts, i, repo_owner, repo_name, agents_path, svc, gets) ==
    IF i > Len(attempts) THEN [out |-> Returned(None), gets |-> gets]
    ELSE LET url == api_url(repo_owner, repo_name, agents_path, attempts[i])
             response == svc[url]
             gets1 == Append(gets, url)
             next == ManifestLoop(attempts, i + 1, repo_owner, repo_name,
                                  agents_path, svc, gets1)
         IN  IF RaisesRequestException(response) \/ RaisesJSONDecodeError(response)
             THEN next                                  \* except ...: continue
             ELSE IF ~IsList(response.json)
             THEN next
             ELSE LET x == ExtractAgentFiles(response.json.items, <<>>) IN
                  IF x.exc # "none"
                  THEN [out |-> Raised(x.exc), gets |-> gets1]
                  ELSE IF x.agent_files # <<>>
                  THEN [out |-> Returned([agent_files |-> x.agent_files]), gets |-> gets1]
                  ELSE next

fetch_agent_manifest(repo_owner, repo_name, repo_branch, agents_path, svc) ==
    ManifestLoop(branch_attempts(repo_branch), 1, repo_owner, repo_name,
                 agents_path, svc, <<>>)

-----------------------------------------------------------------------------
(* Fetcher.fetch_agents_from_repo (fetcher.py 170-231) *)

\* the agent entry built at fetcher.py 211-223; agent_data always carries
\* name, description and category, and never author, version or tags
BuildAgent(agent_data, agent_file, repo_owner, repo_name) ==
    [name |-> agent_data.name,
     description |-> agent_data.description,
     category |-> agent_data.category,
     author |-> None,
     version |-> PyStr(<<"1.0.0">>),
     repo_owner |-> repo_owner,
     repo_name |-> repo_name,
     repo_url |-> [t |-> "url", kind |-> "github", owner |-> repo_owner, name |-> repo_name],
     file_path |-> agent_file.path,
     tags |-> PyList(<<>>),
     source_data |-> agent_data]

\* the loop with the try around the whole loop: the first failed download
\* ends it
RECURSIVE DownloadLoop_abort(_, _, _, _, _, _)
DownloadLoop_abort(agent_files, repo_owner, repo_name, svc, agents, gets) ==
    IF agent_files = <<>> THEN [out |-> Returned(agents), gets |-> gets]
    ELSE LET agent_file == Head(agent_files)
             download_url == agent_file.download_url
         IN  IF ~Truthy(download_url)
             THEN DownloadLoop_abort(Tail(agent_files), repo_owner, repo_name, svc,
                                     agents, gets)
             ELSE LET response == svc[download_url]
                      gets1 == Append(gets, download_url)
                  IN  IF RaisesRequestException(response)
                      THEN [out |-> Returned(agents), gets |-> gets1]
                      ELSE LET agent_data ==
                                   _parse_agent_markdown(response.text, agent_file.name.s)
                           IN  DownloadLoop_abort(Tail(agent_files), repo_owner, repo_name,
                                   svc,
                                   Append(agents, BuildAgent(agent_data, agent_file,
                                                             repo_owner, repo_name)),
                                   gets1)

\* the for loop over agent_files (fetcher.py 193-228)
RECURSIVE DownloadLoop(_, _, _, _, _, _)
DownloadLoop(agent_files, repo_owner, repo_name, svc, agents, gets) ==
    IF agent_files = <<>> THEN [out |-> Returned(agents), gets |-> gets]
    ELSE LET agent_file == Head(agent_files)
             download_url == agent_file.download_url
         IN  IF ~Truthy(download_url)
             THEN DownloadLoop(Tail(agent_files), repo_owner, repo_name, svc, agents, gets)
             ELSE LET response == svc[download_url]
                      gets1 == Append(gets, download_url)
                  IN  IF RaisesRequestException(response)
                      THEN DownloadLoop(Tail(agent_files), repo_owner, repo_name,
                                        svc, agents, gets1)
                      ELSE LET agent_data ==
                                   _parse_agent_markdown(response.text, agent_file.name.s)
                           IN  DownloadLoop(Tail(agent_files), repo_owner, repo_name, svc,
                                   Append(agents, BuildAgent(agent_data, agent_file,
                                                             repo_owner, repo_name)),
                                   gets1)

fetch_agents_from_repo(repo_data, svc) ==
    LET repo_owner == DictGet(repo_data, "owner", None)
        repo_name == DictGet(repo_data, "name", None)
        repo_branch == DictGet(repo_data, "branch", Main)
        agents_path == DictGet(repo_data, "agentsPath", PyStr(<<"agents">>))
    IN  IF ~Truthy(repo_owner) \/ ~Truthy(repo_name)
        THEN [out |-> Returned(<<>>), gets |-> <<>>]
        ELSE LET m == fetch_agent_manifest(repo_owner, repo_name, repo_branch,
                                           agents_path, svc)
             IN  IF m.out.kind = "raise" THEN m
                 ELSE IF m.out.value = None
                 THEN [out |-> Returned(<<>>), gets |-> m.gets]
                 ELSE DownloadLoop(m.out.value.agent_files, repo_owner, repo_name,
                                   svc, <<>>, m.gets)

-----------------------------------------------------------------------------
(* Validator.validate_agent_repo_data (validators.py 22-39) *)

\* the two .strip() calls left out: a blank owner or name passes
validate_agent_repo_data_no_strip(repo_data) ==
    IF ~DictHas(repo_data, "owner") \/ ~DictHas(repo_data, "name")
    THEN FALSE
    ELSE LET owner == DictGet(repo_data, "owner", None)
             name == DictGet(repo_data, "name", None)
         IN  IF ~IsStr(owner) \/ owner.s = <<>>
             THEN FALSE
             ELSE IF ~IsStr(name) \/ name.s = <<>>
             THEN FALSE
             ELSE TRUE

\* the two isinstance tests left out: an owner or name of any type passes
\* unless it is a blank str
validate_agent_repo_data_any_type(repo_data) ==
    IF ~DictHas(repo_data, "owner") \/ ~DictHas(repo_data, "name")
    THEN FALSE
    ELSE LET owner == DictGet(repo_data, "owner", None)
             name == DictGet(repo_data, "name", None)
         IN  IF IsStr(owner) /\ Strip(owner.s) = <<>>
             THEN FALSE
             ELSE IF IsStr(name) /\ Strip(name.s) = <<>>
             THEN FALSE
             ELSE TRUE

\* the test of the name left out: only the owner is looked at
validate_agent_repo_data_owner_only(repo_data) ==
    IF ~DictHas(repo_data, "owner") \/ ~DictHas(repo_data, "name")
    THEN FALSE
    ELSE LET owner == DictGet(repo_data, "owner", None)
         IN  IF ~IsStr(owner) \/ Strip(owner.s) = <<>>
             THEN FALSE
             ELSE TRUE

validate_agent_repo_data(repo_data) ==
    IF ~DictHas(repo_data, "owner") \/ ~DictHas(repo_data, "name")
    THEN FALSE
    ELSE LET owner == DictGet(repo_data, "owner", None)
             name == DictGet(repo_data, "name", None)
         IN  IF ~IsStr(owner) \/ Strip(owner.s) = <<>>
             THEN FALSE
             ELSE IF ~IsStr(name) \/ Strip(name.s) = <<>>
             THEN FALSE
             ELSE TRUE

-----------------------------------------------------------------------------
(* Inputs: the values the environment supplies *)

\* repository records as they appear in a source list payload
Repo(owner, name, branch) ==
    PyDict(<< <<"owner", owner>>, <<"name", name>>, <<"branch", branch>> >>)

Feature == PyStr(<<"feature">>)
Topic == PyStr(<<"topic">>)
OwnerA == PyStr(<<"a">>)
OwnerB == PyStr(<<"b">>)
NameR == PyStr(<<"r">>)
NameQ == PyStr(<<"q">>)

GoodA == Repo(OwnerA, NameR, Feature)
GoodB == Repo(OwnerB, NameQ, Topic)
GoodDefault == PyDict(<< <<"owner", OwnerB>>, <<"name", NameQ>> >>)   \* branch defaults to main
EmptyOwner == Repo(PyStr(<<>>), NameR, Feature)                      \* owner ""
BlankName == Repo(OwnerA, PyStr(<<" ">>), Feature)                   \* name " "
MissingName == PyDict(<< <<"owner", OwnerA>>, <<"branch", Feature>> >>)
NullOwner == Repo(None, NameR, Feature)                              \* owner null
IntOwner == Repo(PyInt(5), NameR, Feature)                           \* owner 5
Disabled == PyDict(<< <<"owner", OwnerA>>, <<"name", NameR>>, <<"branch", Feature>>,
                      <<"enabled", PyBool(FALSE)>> >>)
EnabledTrue == PyDict(<< <<"owner", OwnerA>>, <<"name", NameR>>, <<"branch", Feature>>,
                         <<"enabled", PyBool(TRUE)>> >>)
EnabledNull == PyDict(<< <<"owner", OwnerA>>, <<"name", NameR>>, <<"branch", Feature>>,
                         <<"enabled", None>> >>)                      \* "enabled": null

\* directory listing entries (GitHub contents API)
RawUrl(id) == [t |-> "url", kind |-> "raw", id |-> id]
Entry(type, name, path, download_url) ==
    PyDict(<< <<"type", PyStr(<<type>>)>>, <<"name", PyStr(name)>>,
              <<"path", PyStr(path)>>, <<"download_url", download_url>> >>)

MdA == Entry("file", <<"a", ".", "m", "d">>, <<"agents/", "a", ".", "m", "d">>, RawUrl("a"))
MdB == Entry("file", <<"b", "-", "c", ".", "m", "d">>,
             <<"agents/", "b", "-", "c", ".", "m", "d">>, RawUrl("b"))
MdC == Entry("file", <<"c", ".", "m", "d">>, <<"agents/", "c", ".", "m", "d">>, RawUrl("c"))
TxtFile == Entry("file", <<"n", ".", "t", "x", "t">>, <<"agents/", "n", ".", "t", "x", "t">>,
                 RawUrl("n"))
DirMd == Entry("dir", <<"d", ".", "m", "d">>, <<"agents/", "d", ".", "m", "d">>, None)
MdNullUrl == Entry("file", <<"e", ".", "m", "d">>, <<"agents/", "e", ".", "m", "d">>, None)
MdNoPath == PyDict(<< <<"type", FileType>>, <<"name", PyStr(<<"f", ".", "m", "d">>)>>,
                      <<"download_url", RawUrl("f")>> >>)
MdDot == Entry("file", <<".", "m", "d">>, <<"agents/", ".", "m", "d">>, RawUrl("b"))  \* ".md"
FileNullName == PyDict(<< <<"type", FileType>>, <<"name", None>> >>)

\* listing bodies
NonListBody == PyDict(<< <<"message", PyStr(<<"Not Found">>)>> >>)
EmptyListing == PyList(<<>>)
NoMdListing == PyList(<<DirMd, TxtFile>>)
MdListing == PyList(<<MdA, TxtFile, MdB>>)
MdListing3 == PyList(<<MdA, MdNullUrl, MdB, DirMd, MdC>>)
NoPathListing == PyList(<<MdA, MdNoPath>>)
ScalarListing == PyList(<<PyInt(1)>>)
NullNameListing == PyList(<<FileNullName>>)

\* agent file texts
TextTitled == <<"#", " ", "T", "\n", "\n", "a", "b", "\n", "c", "d", "\n", "\n", "e", "f">>
TextPlain == <<"a", "b", " ", "\n">>

-----------------------------------------------------------------------------
(* State after construction: Fetcher.__init__ (fetcher.py 19-23) and the
   locals of cmd_generate_readme before its loop (agent_scraper.py 64-66) *)

EmptyCache == [x \in {} |-> None]
NoCall == [op |-> "none"]
NoInput == [op |-> "none"]
NoEntry == [absent |-> TRUE]
NoAnswer == [kind |-> "no_get"]

\* the cache entry held for url, if any
EntryOf(c, url) ==
    IF _get_cache_key(url) \in DOMAIN c THEN c[_get_cache_key(url)] ELSE NoEntry

LoopIdle ==
    /\ pc = "idle"
    /\ sources = <<>>
    /\ si = 0
    /\ repositories = <<>>
    /\ ri = 0
    /\ all_repositories = <<>>
    /\ all_agents = <<>>
    /\ runs = <<>>

-----------------------------------------------------------------------------
(* The cache and fetch_json under a running clock *)

CacheUrls == {SourceUrl("u1"), SourceUrl("u2")}

MappingPayload == PyDict(<< <<"r1", GoodA>>, <<"x", PyInt(3)>> >>)

\* bodies a source list endpoint can answer with
CachePayloads == {None, PyDict(<<>>), MappingPayload}

JsonResponses == {TransportError, HttpError, NotJson} \cup {OkJson(v) : v \in CachePayloads}

SourceConfig(id, url) == PyDict(<< <<"id", PyStr(<<id>>)>>, <<"url", url>> >>)
SourceNoUrl == PyDict(<< <<"id", PyStr(<<"s0">>)>> >>)

FetchTicks == {0, 1}    \* ticks a GET can take

InitCache ==
    /\ now = 0
    /\ cache = EmptyCache
    /\ input = NoInput
    /\ ret = NoCall
    /\ LoopIdle

\* time passes between calls; ret describes the call that has just returned
Tick ==
    /\ now < MaxTime
    /\ now' = now + 1
    /\ ret' = NoCall
    /\ UNCHANGED <<cache, input, loopVars>>

\* a call of Fetcher._get_cached_data(url)
GetCachedData ==
    \E url \in CacheUrls :
        LET r == _get_cached_data(cache, now, url) IN
        /\ cache' = r.cache
        /\ ret' = [op |-> "_get_cached_data", arg |-> url, t |-> now,
                   pre |-> EntryOf(cache, url), answer |-> NoAnswer,
                   gets |-> <<>>, out |-> Returned(r.value)]
        /\ UNCHANGED <<now, input, loopVars>>

\* a call of Fetcher.fetch_json(url); the transport answers resp after d ticks
FetchJson ==
    \E url \in CacheUrls, resp \in JsonResponses, d \in FetchTicks :
        LET r == fetch_json(cache, now, url, resp, d) IN
        /\ r.now <= MaxTime
        /\ cache' = r.cache
        /\ now' = r.now
        /\ ret' = [op |-> "fetch_json", arg |-> url, t |-> now,
                   pre |-> EntryOf(cache, url),
                   answer |-> IF r.gets = <<>> THEN NoAnswer ELSE resp,
                   gets |-> r.gets, out |-> Returned(r.value)]
        /\ UNCHANGED <<input, loopVars>>

NextCache == Tick \/ GetCachedData \/ FetchJson

SpecCache == InitCache /\ [][NextCache]_vars

-----------------------------------------------------------------------------
(* Claims about the cache and fetch_json, under SpecCache *)

\* age of the entry a call found, at the moment of its lookup
AgeAtLookup == ret.t - ret.pre.timestamp

IsFailure(resp) == RaisesRequestException(resp) \/ RaisesJSONDecodeError(resp)

\* C1 (cache TTL): a lookup that finds an entry younger than cache_ttl returns
\* the stored payload and keeps the entry; a lookup that finds an entry aged
\* cache_ttl or more returns None and leaves no entry for the URL; and
\* fetch_json answers from the cache (no GET) only from an entry younger than
\* cache_ttl.
C1_CacheTtl ==
    /\ (ret.op = "_get_cached_data" /\ ret.pre # NoEntry) =>
          IF AgeAtLookup < cache_ttl
          THEN /\ ret.out = Returned(ret.pre.data)
               /\ EntryOf(cache, ret.arg) = ret.pre
          ELSE /\ ret.out = Returned(None)
               /\ EntryOf(cache, ret.arg) = NoEntry
    /\ (ret.op = "_get_cached_data" /\ ret.pre = NoEntry) =>
          /\ ret.out = Returned(None)
          /\ EntryOf(cache, ret.arg) = NoEntry
    /\ (ret.op = "fetch_json" /\ ret.gets = <<>>) =>
          /\ ret.pre # NoEntry
          /\ AgeAtLookup < cache_ttl
          /\ ret.out = Returned(ret.pre.data)

\* C1 witness: a lookup found a payload aged exactly cache_ttl
C1_Witness ==
    /\ ret.op = "_get_cached_data"
    /\ ret.pre # NoEntry
    /\ ret.pre.data = MappingPayload
    /\ AgeAtLookup = cache_ttl

\* C8 (cache hit means no network call), as claimed: whenever fetch_json finds
\* an entry younger than cache_ttl, whatever its payload, it returns that
\* payload and issues no GET.
C8_CacheHitNoGet ==
    (ret.op = "fetch_json" /\ ret.pre # NoEntry /\ AgeAtLookup < cache_ttl) =>
        /\ ret.gets = <<>>
        /\ ret.out = Returned(ret.pre.data)

\* C9 (a failed fetch is recoverable and not cached), as claimed: when the GET
\* of fetch_json ends in a transport error, a non-success status or a body
\* that is not JSON, fetch_json returns None and the cache holds no entry for
\* the URL afterwards.
C9_FailureNotCached ==
    (ret.op = "fetch_json" /\ ret.gets # <<>> /\ IsFailure(ret.answer)) =>
        /\ ret.out = Returned(None)
        /\ EntryOf(cache, ret.arg) = NoEntry

-----------------------------------------------------------------------------
(* fetch_agent_manifest and fetch_agents_from_repo applied to every
   combination of transport answers *)

AgentsPath == PyStr(<<"agents">>)

ManifestResponses ==
    {TransportError, HttpError, NotJson, OkJson(NonListBody), OkJson(EmptyListing),
     OkJson(NoMdListing), OkJson(MdListing), OkJson(NoPathListing)}

RequestedBranches == {Main, Master, Feature}

\* the service that answers the i-th candidate of repo_branch with answers[i]
ListingService(repo_owner, repo_name, agents_path, repo_branch, answers) ==
    LET attempts == branch_attempts(repo_branch)
        asked == {api_url(repo_owner, repo_name, agents_path, attempts[i]) :
                     i \in 1..Len(attempts)}
    IN  [u \in asked |->
            answers[CHOOSE i \in 1..Len(attempts) :
                        u = api_url(repo_owner, repo_name, agents_path, attempts[i])]]

FileResponses == {TransportError, HttpError, OkText(TextTitled), OkText(TextPlain)}
DownloadUrls == {RawUrl("a"), RawUrl("b"), RawUrl("c")}

RepoListingResponses ==
    {HttpError, OkJson(NonListBody), OkJson(EmptyListing), OkJson(NoMdListing),
     OkJson(MdListing3), OkJson(NoPathListing), OkJson(ScalarListing),
     OkJson(NullNameListing)}

FallbackListingResponses == {TransportError, OkJson(NoMdListing), OkJson(MdListing)}

InitFetch ==
    /\ now = 0
    /\ cache = EmptyCache
    /\ \/ \E b \in RequestedBranches :
            \E answers \in [1..Len(branch_attempts(b)) -> ManifestResponses] :
               input = [op |-> "fetch_agent_manifest", repo_owner |-> OwnerA,
                        repo_name |-> NameR, repo_branch |-> b, agents_path |-> AgentsPath,
                        svc |-> ListingService(OwnerA, NameR, AgentsPath, b, answers)]
       \/ \E listing \in RepoListingResponses :
            \E files \in [DownloadUrls -> FileResponses] :
               input = [op |-> "fetch_agents_from_repo", repo_data |-> GoodA,
                        svc |-> ListingService(OwnerA, NameR, AgentsPath, Feature,
                                               <<listing>>) @@ files]
       \/ \E answers \in [1..5 -> FallbackListingResponses] :
            \E files \in [DownloadUrls -> FileResponses] :
               input = [op |-> "fetch_agents_from_repo", repo_data |-> GoodDefault,
                        svc |-> ListingService(OwnerB, NameQ, AgentsPath, Main,
                                               answers) @@ files]
       \/ \E r \in {EmptyOwner, MissingName, NullOwner} :
               input = [op |-> "fetch_agents_from_repo", repo_data |-> r,
                        svc |-> EmptyCache]
    /\ ret = NoCall
    /\ LoopIdle

\* the call of Fetcher.fetch_agent_manifest(repo_owner, repo_name, repo_branch, agents_path)
FetchAgentManifest ==
    /\ input.op = "fetch_agent_manifest"
    /\ ret = NoCall
    /\ LET r == fetch_agent_manifest(input.repo_owner, input.repo_name, input.repo_branch,
                                     input.agents_path, input.svc)
       IN  ret' = [op |-> "fetch_agent_manifest", gets |-> r.gets, out |-> r.out,
                   first |-> NoCall]
    /\ UNCHANGED <<now, cache, input, loopVars>>

\* the same call once more on the same Fetcher, with no time gone by and
\* the service unchanged; first is the record of the call before
FetchAgentManifestAgain ==
    /\ input.op = "fetch_agent_manifest"
    /\ ret.op = "fetch_agent_manifest"
    /\ ret.first = NoCall
    /\ LET r == fetch_agent_manifest(input.repo_owner, input.repo_name, input.repo_branch,
                                     input.agents_path, input.svc)
       IN  ret' = [op |-> "fetch_agent_manifest", gets |-> r.gets, out |-> r.out,
                   first |-> ret]
    /\ UNCHANGED <<now, cache, input, loopVars>>

\* the call of Fetcher.fetch_agents_from_repo(repo_data)
FetchAgentsFromRepo ==
    /\ input.op = "fetch_agents_from_repo"
    /\ ret = NoCall
    /\ LET r == fetch_agents_from_repo(input.repo_data, input.svc)
       IN  ret' = [op |-> "fetch_agents_from_repo", gets |-> r.gets, out |-> r.out]
    /\ UNCHANGED <<now, cache, input, loopVars>>

NextFetch == FetchAgentManifest \/ FetchAgentManifestAgain \/ FetchAgentsFromRepo

SpecFetch == InitFetch /\ [][NextFetch]_vars

-----------------------------------------------------------------------------
(* Claims about fetch_agent_manifest and fetch_agents_from_repo, under SpecFetch *)

\* a directory entry that is a markdown file: type "file", name ending in ".md"
IsMdEntry(item) ==
    /\ IsDict(item)
    /\ DictGet(item, "type", None) = FileType
    /\ IsStr(DictGet(item, "name", None))
    /\ EndsWith(DictGet(item, "name", None).s, DotMd)

\* a directory entry as the contents API delivers it: a mapping with type,
\* name (a str), path and download_url
IsDirectoryEntry(item) ==
    /\ IsDict(item)
    /\ DictHas(item, "type") /\ DictHas(item, "path") /\ DictHas(item, "download_url")
    /\ IsStr(DictGet(item, "name", None))

IsListing(resp) ==
    /\ resp.kind = "ok"
    /\ IsList(resp.json)
    /\ \A i \in 1..Len(resp.json.items) : IsDirectoryEntry(resp.json.items[i])

ContainsMd(resp) ==
    /\ resp.kind = "ok"
    /\ IsList(resp.json)
    /\ \E i \in 1..Len(resp.json.items) : IsMdEntry(resp.json.items[i])

\* the file references of a listing: its markdown entries, in listing order
MdRefs(items) ==
    LET md == SelectSeq(items, IsMdEntry) IN
    [i \in 1..Len(md) |-> [name |-> DictGet(md[i], "name", None),
                           path |-> DictGet(md[i], "path", None),
                           download_url |-> DictGet(md[i], "download_url", None)]]

\* the candidate branches, as the claims list them
CandidatesOf(b) ==
    IF b = Main THEN <<Main, Master, Develop, Development, Dev>>
    ELSE IF b = Master THEN <<Master, Main, Develop, Development, Dev>>
    ELSE <<b>>

\* the listing URL of the i-th candidate of the manifest call under study
CandidateUrl(i) ==
    api_url(input.repo_owner, input.repo_name, input.agents_path,
            CandidatesOf(input.repo_branch)[i])

\* the answer the transport gave to the i-th GET of the call
AnswerTo(i) == input.svc[ret.gets[i]]

\* a candidate the search must pass over: the request failed, the body is not
\* a list, or it is a listing without markdown files
Unusable(resp) ==
    \/ IsFailure(resp)
    \/ resp.kind = "ok" /\ ~IsList(resp.json)
    \/ IsListing(resp) /\ ~ContainsMd(resp)

\* C2 (the fallback stops at the first success): the GETs of
\* fetch_agent_manifest go to the candidates in list order, one each; a GET
\* answered by a listing that contains a markdown file is the last GET of the
\* call, and the call returns the file references of that listing; a listing
\* is returned from no other candidate.
C2_StopsAtFirstSuccess ==
    ret.op = "fetch_agent_manifest" =>
        /\ Len(ret.gets) <= Len(CandidatesOf(input.repo_branch))
        /\ \A i \in 1..Len(ret.gets) :
              /\ ret.gets[i] = CandidateUrl(i)
              /\ ContainsMd(AnswerTo(i)) => i = Len(ret.gets)
              /\ (ContainsMd(AnswerTo(i)) /\ IsListing(AnswerTo(i))) =>
                    ret.out = Returned([agent_files |-> MdRefs(AnswerTo(i).json.items)])
        /\ (ret.out.kind = "return" /\ ret.out.value # None) =>
              ContainsMd(AnswerTo(Len(ret.gets)))

\* C2 witness: "main" requested, only "develop" has markdown files: three
\* GETs (main, master, develop), none for development and dev
C2_Witness ==
    /\ ret.op = "fetch_agent_manifest"
    /\ input.repo_branch = Main
    /\ Len(ret.gets) = 3
    /\ ret.gets[3].ref = Develop
    /\ AnswerTo(1) = HttpError
    /\ AnswerTo(2) = OkJson(NoMdListing)
    /\ AnswerTo(3) = OkJson(MdListing)
    /\ ret.out = Returned([agent_files |-> MdRefs(MdListing.items)])

\* C3 (candidate list): the GETs of fetch_agent_manifest are a prefix of the
\* listing URLs of [main, master, develop, development, dev] when "main" is
\* requested, of [master, main, develop, development, dev] when "master" is,
\* and of [requested] otherwise; the requested branch comes first; and a call
\* that returns None has requested each candidate exactly once.
C3_CandidateList ==
    ret.op = "fetch_agent_manifest" =>
        /\ Len(ret.gets) >= 1
        /\ ret.gets[1].ref = input.repo_branch
        /\ Len(ret.gets) <= Len(CandidatesOf(input.repo_branch))
        /\ \A i \in 1..Len(ret.gets) : ret.gets[i] = CandidateUrl(i)
        /\ ret.out = Returned(None) => Len(ret.gets) = Len(CandidatesOf(input.repo_branch))

\* C3 witness: "master" requested and every candidate tried
C3_Witness ==
    /\ ret.op = "fetch_agent_manifest"
    /\ input.repo_branch = Master
    /\ Len(ret.gets) = 5
    /\ ret.gets[2].ref = Main
    /\ ret.gets[5].ref = Dev
    /\ ret.out = Returned(None)

IsListingUrl(u) == u.kind = "contents"
IsDownloadUrl(u) == u.kind = "raw"

\* the GETs of a fetch_agents_from_repo call: directory listings, then files
ListingGets == SelectSeq(ret.gets, IsListingUrl)
FileGets == SelectSeq(ret.gets, IsDownloadUrl)

\* the candidate branches of the repository record under study
RepoCandidates == CandidatesOf(DictGet(input.repo_data, "branch", Main))

RepoCandidateUrl(i) ==
    api_url(DictGet(input.repo_data, "owner", None), DictGet(input.repo_data, "name", None),
            DictGet(input.repo_data, "agentsPath", AgentsPath), RepoCandidates[i])

\* C4 (the fallback continues past unusable branches): in
\* fetch_agent_manifest a candidate whose request fails, whose body is not a
\* list or whose listing holds no markdown file is followed by a GET for the
\* next candidate; when every candidate is unusable the call returns None
\* after one GET per candidate and raises nothing; and fetch_agents_from_repo
\* then returns no agents and downloads no file.
C4_ContinuesPastUnusable ==
    /\ ret.op = "fetch_agent_manifest" =>
          /\ \A i \in 1..Len(ret.gets) :
                (Unusable(AnswerTo(i)) /\ i < Len(CandidatesOf(input.repo_branch))) =>
                    /\ Len(ret.gets) > i
                    /\ ret.gets[i + 1] = CandidateUrl(i + 1)
          /\ (\A i \in 1..Len(ret.gets) : Unusable(AnswerTo(i))) =>
                /\ ret.out = Returned(None)
                /\ Len(ret.gets) = Len(CandidatesOf(input.repo_branch))
    /\ (ret.op = "fetch_agents_from_repo" /\ validate_agent_repo_data(input.repo_data)) =>
          /\ \A i \in 1..Len(ListingGets) :
                (Unusable(input.svc[ListingGets[i]]) /\ i < Len(RepoCandidates)) =>
                    /\ Len(ListingGets) > i
                    /\ ListingGets[i + 1] = RepoCandidateUrl(i + 1)
          /\ (\A i \in 1..Len(ListingGets) : Unusable(input.svc[ListingGets[i]])) =>
                /\ ret.out = Returned(<<>>)
                /\ Len(ListingGets) = Len(RepoCandidates)
                /\ FileGets = <<>>

\* C4 witness: every candidate of a repository on the default branch is
\* unusable, in several ways, and the repository yields no agents
C4_Witness ==
    /\ ret.op = "fetch_agents_from_repo"
    /\ input.repo_data = GoodDefault
    /\ Len(ret.gets) = 5
    /\ input.svc[ret.gets[1]] = TransportError
    /\ input.svc[ret.gets[2]] = OkJson(NoMdListing)
    /\ input.svc[ret.gets[5]] = TransportError
    /\ \A i \in 1..5 : Unusable(input.svc[ret.gets[i]])
    /\ ret.out = Returned(<<>>)

\* the listing that won the fallback of a fetch_agents_from_repo call
WinningListing == input.svc[ListingGets[Len(ListingGets)]]

HasLocation(ref) == Truthy(ref.download_url)
Downloaded(ref) == HasLocation(ref) /\ input.svc[ref.download_url].kind = "ok"

\* C10 (file-level failure isolation): when the fallback of
\* fetch_agents_from_repo has won a listing, every file reference of the
\* listing that carries a download location is requested once, in listing
\* order, whatever became of the downloads before it, and the agents returned
\* are one record per reference whose download succeeded, in listing order.
C10_FileIsolation ==
    (/\ ret.op = "fetch_agents_from_repo"
     /\ ListingGets # <<>>
     /\ IsListing(WinningListing) /\ ContainsMd(WinningListing)) =>
        LET refs == MdRefs(WinningListing.json.items)
            wanted == SelectSeq(refs, HasLocation)
            got == SelectSeq(refs, Downloaded)
        IN  /\ FileGets = [i \in 1..Len(wanted) |-> wanted[i].download_url]
            /\ ret.out.kind = "return"
            /\ Len(ret.out.value) = Len(got)
            /\ \A i \in 1..Len(got) :
                  /\ ret.out.value[i].file_path = got[i].path
                  /\ ret.out.value[i].repo_owner = DictGet(input.repo_data, "owner", None)
                  /\ ret.out.value[i].repo_name = DictGet(input.repo_data, "name", None)
                  /\ ret.out.value[i].source_data =
                        _parse_agent_markdown(input.svc[got[i].download_url].text,
                                              got[i].name.s)

\* C10 witness: of three files the first and the last fail to download, in
\* two different ways, and the one between them yields the only agent
C10_Witness ==
    /\ ret.op = "fetch_agents_from_repo"
    /\ ListingGets # <<>>
    /\ WinningListing = OkJson(MdListing3)
    /\ input.svc[RawUrl("a")] = TransportError
    /\ input.svc[RawUrl("b")] = OkText(TextTitled)
    /\ input.svc[RawUrl("c")] = HttpError
    /\ FileGets = <<RawUrl("a"), RawUrl("b"), RawUrl("c")>>
    /\ ret.out.kind = "return"
    /\ Len(ret.out.value) = 1
    /\ ret.out.value[1].file_path = DictGet(MdB, "path", None)

\* C12 (directory listings are cached), as claimed: when a call of
\* fetch_agent_manifest has retrieved a listing with markdown files, the same
\* call repeated on the same Fetcher within cache_ttl issues no GET for the
\* URL of that listing and returns the same file references.
C12_ListingsCached ==
    (/\ ret.op = "fetch_agent_manifest"
     /\ ret.first # NoCall
     /\ ret.first.out.kind = "return"
     /\ ret.first.out.value # None) =>
        LET listing_url == ret.first.gets[Len(ret.first.gets)] IN
        /\ \A i \in 1..Len(ret.gets) : ret.gets[i] # listing_url
        /\ ret.out = ret.first.out

-----------------------------------------------------------------------------
(* cmd_generate_readme: the aggregation loop (agent_scraper.py 51-84) *)

S1 == SourceConfig("s1", SourceUrl("u1"))
S2 == SourceConfig("s2", SourceUrl("u2"))

\* config.get_enabled_sources()
LoopSourceLists == {<<>>, <<S1, S2>>, <<S1, S1>>, <<SourceNoUrl, S1>>}

\* a source list payload of three entries around the entry mid
Payload3(mid) == PyDict(<< <<"r1", GoodA>>, <<"r2", mid>>, <<"r3", GoodB>> >>)

MiddleEntries ==
    {EmptyOwner, BlankName, MissingName, IntOwner, Disabled, EnabledNull, EnabledTrue,
     PyInt(3)}

LoopSourceResponses ==
    {TransportError, HttpError, NotJson}
    \cup {OkJson(v) : v \in {None, PyList(<<>>), PyList(<<PyInt(1)>>), PyInt(7)}}
    \cup {OkJson(Payload3(mid)) : mid \in MiddleEntries}

TwoMdListing == PyList(<<TxtFile, MdA, MdDot>>)

LoopListingResponses == {HttpError, OkJson(TwoMdListing), OkJson(NoPathListing)}
LoopFileResponses == {TransportError, OkText(TextTitled)}

\* the answers to the downloads of a.md (answer) and of .md (a text without
\* a heading)
LoopFiles(answer) ==
    [u \in {RawUrl("a"), RawUrl("b")} |->
        IF u = RawUrl("a") THEN answer ELSE OkText(TextPlain)]

\* the service that answers the candidates of repo_data with answers, in
\* order, and the file downloads with files
LoopService(repo_data, answers, files) ==
    ListingService(DictGet(repo_data, "owner", None), DictGet(repo_data, "name", None),
                   DictGet(repo_data, "agentsPath", AgentsPath),
                   DictGet(repo_data, "branch", Main), answers) @@ files

\* agent_scraper.py 55-66
Init ==
    /\ now = 0
    /\ cache = EmptyCache
    /\ input = NoInput
    /\ ret = NoCall
    /\ sources \in LoopSourceLists
    /\ pc = IF sources = <<>> THEN "done" ELSE "source"    \* if not sources: return 0
    /\ si = 1
    /\ repositories = <<>>
    /\ ri = 1
    /\ all_repositories = <<>>
    /\ all_agents = <<>>
    /\ runs = <<>>

\* the loop position after the repository at index i of the current source
AfterRepo(i, repos) ==
    IF i < Len(repos)
    THEN /\ pc' = "repo" /\ ri' = i + 1 /\ si' = si
    ELSE /\ pc' = IF si < Len(sources) THEN "source" ELSE "done"
         /\ ri' = 1
         /\ si' = si + 1

\* one pass of agent_scraper.py 68-71: the repository list of sources[si] is
\* fetched, the GET (if any) answered by resp after d ticks, and appended to
\* all_repositories
SourceStep(resp, d) ==
    LET source == sources[si]
        url == DictGet(source, "url", None)
        r == fetch_agent_repos_from_source(cache, now, source, resp, d)
    IN
    /\ r.now <= MaxTime
    /\ now' = r.now
    /\ cache' = r.cache
    /\ ret' = [op |-> "fetch_agent_repos_from_source", arg |-> source, t |-> now,
               pre |-> IF Truthy(url) THEN EntryOf(cache, url) ELSE NoEntry,
               answers |-> IF r.gets = <<>> THEN <<>> ELSE <<resp>>,
               gets |-> r.gets, out |-> r.out, si |-> si, ri |-> 0]
    /\ IF r.out.kind = "raise"
       THEN /\ pc' = "raised"
            /\ UNCHANGED <<si, ri, repositories, all_repositories>>
       ELSE /\ repositories' = r.out.value
            /\ all_repositories' = all_repositories \o r.out.value
            /\ AfterRepo(0, r.out.value)
    /\ UNCHANGED <<input, sources, all_agents, runs>>

ProcessSource ==
    /\ pc = "source"
    /\ \E resp \in LoopSourceResponses, d \in FetchTicks : SourceStep(resp, d)

\* one pass of agent_scraper.py 74-84 for repo_data = repositories[ri]; svc
\* answers the GETs of fetch_agents_from_repo
RepoStep(repo_data, svc) ==
    /\ IF ~Truthy(DictGet(repo_data, "enabled", PyBool(TRUE)))
       THEN /\ ret' = [op |-> "skip_disabled", arg |-> repo_data, answers |-> <<>>,
                       gets |-> <<>>, out |-> Returned(<<>>), si |-> si, ri |-> ri]
            /\ AfterRepo(ri, repositories)
            /\ UNCHANGED <<now, all_agents>>
       ELSE IF ~validate_agent_repo_data(repo_data)
       THEN /\ ret' = [op |-> "skip_invalid", arg |-> repo_data, answers |-> <<>>,
                       gets |-> <<>>, out |-> Returned(<<>>), si |-> si, ri |-> ri]
            /\ AfterRepo(ri, repositories)
            /\ UNCHANGED <<now, all_agents>>
       ELSE LET r == fetch_agents_from_repo(repo_data, svc) IN
            /\ now' = now      \* no cache is consulted here: the clock is left alone
            /\ ret' = [op |-> "fetch_agents_from_repo", arg |-> repo_data,
                       answers |-> [i \in 1..Len(r.gets) |-> svc[r.gets[i]]],
                       gets |-> r.gets, out |-> r.out, si |-> si, ri |-> ri]
            /\ IF r.out.kind = "raise"
               THEN /\ pc' = "raised"
                    /\ UNCHANGED <<si, ri, all_agents>>
               ELSE /\ all_agents' = all_agents \o r.out.value
                    /\ AfterRepo(ri, repositories)
    /\ UNCHANGED <<cache, input, sources, repositories, all_repositories, runs>>

ProcessRepo ==
    /\ pc = "repo"
    /\ LET repo_data == repositories[ri] IN
       \E answers \in [1..Len(branch_attempts(DictGet(repo_data, "branch", Main)))
                          -> LoopListingResponses],
          answer \in LoopFileResponses :
          RepoStep(repo_data, LoopService(repo_data, answers, LoopFiles(answer)))

Next == ProcessSource \/ ProcessRepo

Spec == Init /\ [][Next]_vars

-----------------------------------------------------------------------------
(* Claims about the aggregation loop, under Spec *)

\* owner or name of a repository record is missing or blank
MissingOrBlank(v) == v = None \/ (IsStr(v) /\ Strip(v.s) = <<>>)
HasBlankField(repo_data) ==
    \/ MissingOrBlank(DictGet(repo_data, "owner", None))
    \/ MissingOrBlank(DictGet(repo_data, "name", None))

\* the payload a fetch_agent_repos_from_source step worked on: the body of
\* its GET, or the cached payload when no GET was issued
PayloadOf(r) ==
    IF r.gets # <<>>
    THEN (IF IsFailure(r.answers[1]) THEN None ELSE r.answers[1].json)
    ELSE (IF r.pre = NoEntry THEN None ELSE r.pre.data)

NumberOfMappings(items) == Cardinality({i \in 1..Len(items) : IsDict(items[i][2])})

\* the loop position that follows the step recorded in ret
Advanced ==
    IF ret.ri < Len(repositories)
    THEN pc = "repo" /\ si = ret.si /\ ri = ret.ri + 1
    ELSE /\ si = ret.si + 1
         /\ pc = IF ret.si < Len(sources) THEN "source" ELSE "done"

\* C5 (continue-on-error across repositories): a source step appends every
\* mapping of its payload, valid or not, enabled or not, to all_repositories;
\* a repository whose owner or name is missing or blank is passed over
\* without a GET, adds no agent, and the loop moves on to the repository or
\* source after it; no agent of all_agents carries a blank owner or name.
C5_ContinueOnError ==
    /\ (ret.op = "fetch_agent_repos_from_source" /\ ret.out.kind = "return") =>
          LET n == Len(ret.out.value) IN
          /\ repositories = ret.out.value
          /\ Len(all_repositories) >= n
          /\ SubSeq(all_repositories, Len(all_repositories) - n + 1,
                    Len(all_repositories)) = ret.out.value
          /\ IsDict(PayloadOf(ret)) => n = NumberOfMappings(PayloadOf(ret).items)
    /\ (ret.op \in {"skip_invalid", "skip_disabled", "fetch_agents_from_repo"}
          /\ HasBlankField(ret.arg)) =>
          /\ ret.gets = <<>>
          /\ ret.out = Returned(<<>>)
          /\ Advanced
    /\ \A i \in 1..Len(all_agents) :
          /\ ~MissingOrBlank(all_agents[i].repo_owner)
          /\ ~MissingOrBlank(all_agents[i].repo_name)
          /\ \E j \in 1..Len(all_repositories) :
                /\ DictGet(all_repositories[j], "owner", None) = all_agents[i].repo_owner
                /\ DictGet(all_repositories[j], "name", None) = all_agents[i].repo_name

\* C5 witness: three repositories, the second with owner "", the run over:
\* all three are in all_repositories and the agents are those of the first
\* and the third
C5_Witness ==
    /\ pc = "done"
    /\ sources = <<SourceNoUrl, S1>>
    /\ Len(all_repositories) = 3
    /\ DictGet(all_repositories[2], "owner", None) = PyStr(<<>>)
    /\ Len(all_agents) = 2
    /\ all_agents[1].repo_owner = OwnerA
    /\ all_agents[2].repo_owner = OwnerB

\* C6 (no failure escapes the Fetcher), as claimed: whatever the transport
\* answers, no exception propagates out of fetch_agent_repos_from_source,
\* fetch_agent_manifest, fetch_agents_from_repo or _parse_agent_markdown
\* into the aggregation loop.
C6_NoFailureEscapes == pc # "raised"

\* C7 (non-mapping source payload), as claimed: when the payload fetched for
\* a source is not a mapping, fetch_agent_repos_from_source returns an empty
\* sequence and raises nothing.
C7_NonMappingYieldsNothing ==
    (/\ ret.op = "fetch_agent_repos_from_source"
     /\ ret.gets # <<>>
     /\ ~IsFailure(ret.answers[1])
     /\ ~IsDict(ret.answers[1].json)) =>
        ret.out = Returned(<<>>)

\* a str that is not blank
NonBlankStr(v) == IsStr(v) /\ Strip(v.s) # <<>>

\* a repository record with an owner and a name that are both non-blank strs
StructurallyValid(repo_data) ==
    /\ DictHas(repo_data, "owner") /\ NonBlankStr(DictGet(repo_data, "owner", None))
    /\ DictHas(repo_data, "name") /\ NonBlankStr(DictGet(repo_data, "name", None))

IsRepoStep(r) == r.op \in {"skip_disabled", "skip_invalid", "fetch_agents_from_repo"}

\* C11 (no network call for an invalid repository): the loop issues no GET,
\* neither for a directory listing nor for a file, when it comes to a
\* repository whose owner or name is absent, not a str, or blank, and the
\* repository adds no agent.
C11_NoGetForInvalid ==
    (IsRepoStep(ret) /\ ~StructurallyValid(ret.arg)) =>
        /\ ret.gets = <<>>
        /\ ret.out = Returned(<<>>)
        /\ ret.op # "fetch_agents_from_repo"

\* C11 witness: the loop came to an enabled repository whose owner is the
\* number 5 and passed it over
C11_Witness ==
    /\ ret.op = "skip_invalid"
    /\ DictGet(ret.arg, "owner", None) = PyInt(5)
    /\ ~DictHas(ret.arg, "enabled")
    /\ ret.gets = <<>>

IsMappingEntry(e) == IsDict(e[2])

\* out is the candidate list of payload: one record per mapping entry, in the
\* iteration order of the payload, carrying the entry's key as id, url as
\* source_url and the fields of the entry
IsCandidateList(out, payload, url) ==
    LET m == SelectSeq(payload.items, IsMappingEntry) IN
    /\ Len(out) = Len(m)
    /\ \A k \in 1..Len(m) :
          /\ DictGet(out[k], "id", None) = PyStr(<<m[k][1]>>)
          /\ DictGet(out[k], "source_url", None) = url
          /\ \A j \in 1..Len(m[k][2].items) :
                LET field == m[k][2].items[j][1] IN
                field \notin {"id", "source_url"} =>
                    DictGet(out[k], field, None) = m[k][2].items[j][2]

\* the listing that won the fallback of the repository step r, and the
\* answer the step got from url u
StepListing(r) == r.answers[Len(SelectSeq(r.gets, IsListingUrl))]
StepAnswer(r, u) == r.answers[CHOOSE j \in 1..Len(r.gets) : r.gets[j] = u]

\* the paths of the files of the winning listing whose download succeeded,
\* in listing order
StepPaths(r) ==
    LET refs == MdRefs(StepListing(r).json.items)
        got == SelectSeq(refs, LAMBDA ref : /\ HasLocation(ref)
                                            /\ StepAnswer(r, ref.download_url).kind = "ok")
    IN  [i \in 1..Len(got) |-> got[i].path]

\* C13 (deterministic processing order): every step of the loop appends at
\* the end of the collections.  A source step handles sources[si], appends
\* its candidates, which are the mapping entries of the payload in iteration
\* order, to all_repositories, and goes on to the first of them; a repository
\* step handles repositories[ri], appends its agents, which follow the order
\* of the directory listing, to all_agents, and goes on to ri + 1 or to the
\* next source.
C13_Step ==
    /\ (ret'.op = "fetch_agent_repos_from_source" /\ ret'.out.kind = "return") =>
          /\ pc = "source"
          /\ ret'.arg = sources[si]
          /\ all_repositories' = all_repositories \o ret'.out.value
          /\ repositories' = ret'.out.value
          /\ all_agents' = all_agents
          /\ IsDict(PayloadOf(ret')) =>
                IsCandidateList(ret'.out.value, PayloadOf(ret'),
                                DictGet(sources[si], "url", None))
          /\ IF ret'.out.value # <<>>
             THEN pc' = "repo" /\ si' = si /\ ri' = 1
             ELSE si' = si + 1 /\ pc' = IF si < Len(sources) THEN "source" ELSE "done"
    /\ (IsRepoStep(ret') /\ ret'.out.kind = "return") =>
          /\ pc = "repo"
          /\ ret'.arg = repositories[ri]
          /\ all_agents' = all_agents \o ret'.out.value
          /\ all_repositories' = all_repositories
          /\ repositories' = repositories
          /\ ret'.out.value # <<>> =>
                [i \in 1..Len(ret'.out.value) |-> ret'.out.value[i].file_path]
                    = StepPaths(ret')
          /\ IF ri < Len(repositories)
             THEN pc' = "repo" /\ si' = si /\ ri' = ri + 1
             ELSE si' = si + 1 /\ pc' = IF si < Len(sources) THEN "source" ELSE "done"

C13_ProcessingOrder == [][C13_Step]_vars

\* C13 witness: two sources of three repositories each, the run over: six
\* repositories in payload order, and the agents of the first and the third
\* repository of each source, two files each, in listing order
C13_Witness ==
    /\ pc = "done"
    /\ sources = <<S1, S2>>
    /\ Len(all_repositories) = 6
    /\ [i \in 1..6 |-> DictGet(all_repositories[i], "id", None)]
          = <<PyStr(<<"r1">>), PyStr(<<"r2">>), PyStr(<<"r3">>),
              PyStr(<<"r1">>), PyStr(<<"r2">>), PyStr(<<"r3">>)>>
    /\ DictGet(all_repositories[4], "source_url", None) = SourceUrl("u2")
    /\ Len(all_agents) = 8
    /\ [i \in 1..8 |-> all_agents[i].repo_owner]
          = <<OwnerA, OwnerA, OwnerB, OwnerB, OwnerA, OwnerA, OwnerB, OwnerB>>
    /\ \A i \in {1, 3, 5, 7} :
          /\ all_agents[i].file_path = DictGet(MdA, "path", None)
          /\ all_agents[i + 1].file_path = DictGet(MdDot, "path", None)

\* C16 (no agent without a name), as claimed: every record of all_agents has
\* a name that is a non-blank str.
C16_NoNamelessAgent ==
    \A i \in 1..Len(all_agents) : NonBlankStr(all_agents[i].name)

\* C20 (enabled gate), as claimed: the loop fetches the agents of a
\* structurally valid repository exactly when its enabled field is absent or
\* true, and passes it over, without a GET and without an agent, exactly when
\* its enabled field is false; either way the repository is in
\* all_repositories.
C20_EnabledGate ==
    (IsRepoStep(ret) /\ StructurallyValid(ret.arg)) =>
        LET enabled == DictGet(ret.arg, "enabled", None) IN
        /\ (ret.op = "fetch_agents_from_repo")
              <=> (~DictHas(ret.arg, "enabled") \/ enabled = PyBool(TRUE))
        /\ (ret.op = "skip_disabled" /\ ret.gets = <<>> /\ ret.out = Returned(<<>>))
              <=> (DictHas(ret.arg, "enabled") /\ enabled = PyBool(FALSE))
        /\ \E j \in 1..Len(all_repositories) : all_repositories[j] = ret.arg

-----------------------------------------------------------------------------
(* The aggregation loop passed twice over the same sources with one Fetcher,
   against a service that answers every URL the same way each time *)

RerunSourceLists == {<<S1>>, <<S1, S2>>, <<S1, S1>>}

RerunSourceResponses1 ==
    {HttpError, OkJson(None), OkJson(Payload3(EmptyOwner)), OkJson(Payload3(EnabledTrue))}
RerunSourceResponses2 == {NotJson, OkJson(PyDict(<< <<"r9", GoodB>> >>))}
RerunListingResponses == {HttpError, OkJson(TwoMdListing)}

\* the backing service: one answer per URL
RerunService(source1, source2, listing_a, listing_b, file_a) ==
    (SourceUrl("u1") :> source1) @@ (SourceUrl("u2") :> source2)
    @@ (api_url(OwnerA, NameR, AgentsPath, Feature) :> listing_a)
    @@ (api_url(OwnerB, NameQ, AgentsPath, Topic) :> listing_b)
    @@ LoopFiles(file_a)

InitRerun ==
    /\ now = 0
    /\ cache = EmptyCache
    /\ \E source1 \in RerunSourceResponses1, source2 \in RerunSourceResponses2,
          listing_a \in RerunListingResponses, listing_b \in RerunListingResponses,
          file_a \in LoopFileResponses :
          input = [op |-> "service",
                   svc |-> RerunService(source1, source2, listing_a, listing_b, file_a)]
    /\ ret = NoCall
    /\ sources \in RerunSourceLists
    /\ pc = "source"
    /\ si = 1
    /\ repositories = <<>>
    /\ ri = 1
    /\ all_repositories = <<>>
    /\ all_agents = <<>>
    /\ runs = <<>>

\* agent_scraper.py 68-71 against the service
RerunSource ==
    /\ pc = "source"
    /\ input.op = "service"
    /\ \E d \in FetchTicks :
          SourceStep(input.svc[DictGet(sources[si], "url", None)], d)

\* agent_scraper.py 74-84 against the service
RerunRepo ==
    /\ pc = "repo"
    /\ input.op = "service"
    /\ RepoStep(repositories[ri], input.svc)

\* the loop is over: its collections are kept in runs, and after the first
\* pass the locals are set up again (agent_scraper.py 65-66) while the
\* Fetcher, and with it the cache, stays; d ticks go by in between
RunAgain ==
    /\ pc = "done"
    /\ input.op = "service"
    /\ Len(runs) < 2
    /\ runs' = Append(runs, [repositories |-> all_repositories, agents |-> all_agents])
    /\ ret' = NoCall
    /\ IF Len(runs) = 0
       THEN /\ \E d \in FetchTicks : now + d <= MaxTime /\ now' = now + d
            /\ pc' = "source"
            /\ si' = 1
            /\ ri' = 1
            /\ repositories' = <<>>
            /\ all_repositories' = <<>>
            /\ all_agents' = <<>>
       ELSE /\ pc' = "finished"
            /\ UNCHANGED <<now, si, ri, repositories, all_repositories, all_agents>>
    /\ UNCHANGED <<cache, input, sources>>

NextRerun == RerunSource \/ RerunRepo \/ RunAgain

SpecRerun == InitRerun /\ [][NextRerun]_vars

\* C14 (idempotence of aggregation): the second pass of the loop with the
\* same Fetcher, against the unchanged service, ends with repository and
\* agent collections equal to those of the first pass, element for element
\* and in the same order.
C14_Idempotent ==
    Len(runs) = 2 =>
        /\ runs[2].repositories = runs[1].repositories
        /\ runs[2].agents = runs[1].agents

\* C14 witness: both passes are over, no time has gone by, so that the
\* second pass took the repository list from the cache entry the first one
\* stored, and the collections hold three repositories and four agents
C14_Witness ==
    /\ Len(runs) = 2
    /\ now = 0
    /\ sources = <<S1>>
    /\ EntryOf(cache, SourceUrl("u1")) # NoEntry
    /\ Len(runs[2].repositories) = 3
    /\ Len(runs[2].agents) = 4

-----------------------------------------------------------------------------
(* Config._load_config (config.py 18-25) and main (agent_scraper.py 155-248) *)

\* what open() and yaml.safe_load() make of the configuration file
FileMissing == [kind |-> "missing"]            \* open() raises FileNotFoundError
FileUnreadable == [kind |-> "unreadable"]      \* open() raises PermissionError
FileUnparsable == [kind |-> "unparsable"]      \* yaml.safe_load() raises YAMLError
FileDocument(doc) == [kind |-> "document", doc |-> doc]

\* config.py 18-25: any exception is logged and {} is returned
_load_config(file) ==
    IF file.kind = "document" THEN file.doc ELSE PyDict(<<>>)

\* Config.agent_sources (config.py 27-31), for a list of mappings
agent_sources(_config) ==
    LET listed == DictGet(_config, "agent_sources", PyList(<<>>)) IN
    SelectSeq(listed.items, LAMBDA source : Truthy(DictGet(source, "enabled", PyBool(TRUE))))

GenerateReadme == PyStr(<<"generate-readme">>)
ValidateConfig == PyStr(<<"validate-config">>)
ListSources == PyStr(<<"list-sources">>)

\* the outcomes main can have: the exit status and the command that was
\* executed, if any.  With sources to process, generate-readme ends with the
\* status of the aggregation and of the writing of the README.
main(command, file) ==
    IF command = None
    THEN {[status |-> 1, executed |-> None]}                       \* print_help
    ELSE LET _config == _load_config(file) IN
         IF ~IsDict(_config) \/ ~IsDict(DictGet(_config, "logging", PyDict(<<>>)))
         \* config.logging_config.get(...) raises AttributeError, caught at 230
         THEN {[status |-> 1, executed |-> None]}
         ELSE IF command = GenerateReadme
         THEN IF agent_sources(_config) = <<>>
              THEN {[status |-> 0, executed |-> command]}          \* if not sources: return 0
              ELSE {[status |-> st, executed |-> command] : st \in {0, 1}}
         ELSE {[status |-> 0, executed |-> command]}

-----------------------------------------------------------------------------
(* validate_agent_repo_data, _parse_agent_markdown and main applied to their
   inputs *)

Absent == [t |-> "absent"]

\* values of the owner and the name field
FieldValues ==
    {Absent, None, PyStr(<<>>), PyStr(<<" ">>), PyStr(<<"\t", "\n">>), PyStr(<<"a">>),
     PyStr(<<"b">>), PyStr(<<" ", "a", " ">>), PyInt(5), PyBool(TRUE)}

\* the other fields of a repository record
OtherFields ==
    {<<>>,
     << <<"branch", Master>>, <<"enabled", PyBool(FALSE)>> >>,
     << <<"enabled", None>>, <<"agentsPath", PyStr(<<"x">>)>>,
        <<"description", PyStr(<<>>)>>, <<"id", PyInt(1)>>, <<"source_url", None>> >>}

Field(k, v) == IF v = Absent THEN <<>> ELSE << <<k, v>> >>

RepoRecord(owner, name, others) ==
    PyDict(Field("owner", owner) \o others \o Field("name", name))

\* texts of agent files, character by character
Text_Empty == <<>>
Text_HeadingOnly == <<"#", " ", "T">>
Text_Example ==                             \* "# T\n\nab\ncd\n\nef"
    <<"#", " ", "T", "\n", "\n", "a", "b", "\n", "c", "d", "\n", "\n", "e", "f">>
Text_NoHeading == <<"a", "b", " ", "\n", "c", "d">>
Text_Indented == <<" ", "#", " ", "T", " ", "\n", " ", "a", "b", " ">>
Text_CustomTitle ==
    <<"#", " ", "C", "u", "s", "t", "o", "m", " ", "T", "i", "t", "l", "e">>
Text_SubHeadingInRun ==                     \* "ab\n## s\ncd"
    <<"a", "b", "\n", "#", "#", " ", "s", "\n", "c", "d">>
Text_HeadingInRun ==                        \* "# T\nab\n# U\ncd"
    <<"#", " ", "T", "\n", "a", "b", "\n", "#", " ", "U", "\n", "c", "d">>
Text_HeadingAfterRun ==                     \* "ab\n\n# T"
    <<"a", "b", "\n", "\n", "#", " ", "T">>
Text_SubHeadingFirst ==                     \* "## s\n\nab"
    <<"#", "#", " ", "s", "\n", "\n", "a", "b">>

Texts ==
    {Text_Empty, Text_HeadingOnly, Text_Example, Text_NoHeading, Text_Indented,
     Text_CustomTitle, Text_SubHeadingInRun, Text_HeadingInRun, Text_HeadingAfterRun,
     Text_SubHeadingFirst}

File_x == <<"x", ".", "m", "d">>
File_code_review_helper ==
    <<"c", "o", "d", "e", "-", "r", "e", "v", "i", "e", "w", "-",
      "h", "e", "l", "p", "e", "r", ".", "m", "d">>
File_myAgent == <<"m", "y", "A", "g", "e", "n", "t", ".", "m", "d">>
File_double == <<"a", ".", "m", "d", ".", "m", "d">>          \* "a.md.md"
File_dot == <<".", "m", "d">>                                  \* ".md"

Filenames == {File_x, File_code_review_helper, File_myAgent, File_double, File_dot}

ConfigLogging == PyDict(<< <<"level", PyStr(<<"INFO">>)>> >>)
SourceDisabled ==
    PyDict(<< <<"id", PyStr(<<"s3">>)>>, <<"url", SourceUrl("u1")>>,
              <<"enabled", PyBool(FALSE)>> >>)

ConfigFiles ==
    {FileMissing, FileUnreadable, FileUnparsable,
     FileDocument(None),                                           \* an empty file
     FileDocument(PyList(<<>>)),
     FileDocument(PyDict(<<>>)),
     FileDocument(PyDict(<< <<"logging", PyInt(1)>> >>)),
     FileDocument(PyDict(<< <<"agent_sources", PyList(<<S1, S2>>)>>,
                            <<"logging", ConfigLogging>> >>)),
     FileDocument(PyDict(<< <<"agent_sources", PyList(<<SourceDisabled>>)>> >>))}

Commands == {None, GenerateReadme, ValidateConfig, ListSources}

InitPure ==
    /\ now = 0
    /\ cache = EmptyCache
    /\ \/ \E owner \in FieldValues, name \in FieldValues, others \in OtherFields :
             input = [op |-> "validate_agent_repo_data",
                      repo_data |-> RepoRecord(owner, name, others)]
       \/ \E content \in Texts, filename \in Filenames :
             input = [op |-> "_parse_agent_markdown", content |-> content,
                      filename |-> filename]
       \/ \E command \in Commands, file \in ConfigFiles :
             input = [op |-> "main", command |-> command, file |-> file]
    /\ ret = NoCall
    /\ LoopIdle

\* the call of Validator.validate_agent_repo_data(repo_data)
ValidateAgentRepoData ==
    /\ input.op = "validate_agent_repo_data"
    /\ ret = NoCall
    /\ ret' = [op |-> "validate_agent_repo_data",
               out |-> Returned(PyBool(validate_agent_repo_data(input.repo_data)))]
    /\ UNCHANGED <<now, cache, input, loopVars>>

\* the call of Fetcher._parse_agent_markdown(content, filename)
ParseAgentMarkdown ==
    /\ input.op = "_parse_agent_markdown"
    /\ ret = NoCall
    /\ ret' = [op |-> "_parse_agent_markdown",
               out |-> Returned(_parse_agent_markdown(input.content, input.filename))]
    /\ UNCHANGED <<now, cache, input, loopVars>>

\* one run of main() with the command line and the configuration file given
MainRun ==
    /\ input.op = "main"
    /\ ret = NoCall
    /\ \E outcome \in main(input.command, input.file) :
          ret' = [op |-> "main", out |-> Returned(outcome)]
    /\ UNCHANGED <<now, cache, input, loopVars>>

NextPure == ValidateAgentRepoData \/ ParseAgentMarkdown \/ MainRun

SpecPure == InitPure /\ [][NextPure]_vars

-----------------------------------------------------------------------------
(* Claims about validate_agent_repo_data, _parse_agent_markdown and main,
   under SpecPure *)

FieldOf(repo_data, k) == IF DictHas(repo_data, k) THEN DictGet(repo_data, k, None) ELSE Absent

\* the record reduced to its owner and name
CoreOf(repo_data) ==
    RepoRecord(FieldOf(repo_data, "owner"), FieldOf(repo_data, "name"), <<>>)

\* C15 (validation gate): validate_agent_repo_data returns True exactly when
\* the record has an owner and a name that are both strs and both non-blank
\* after trimming; owner "" and a missing name are rejected, owner "a" with
\* name "b" is accepted, and the record reduced to owner and name gets the
\* same result as the record with its other fields.
C15_ValidationGate ==
    ret.op = "validate_agent_repo_data" =>
        LET owner == FieldOf(input.repo_data, "owner")
            name == FieldOf(input.repo_data, "name")
        IN  /\ ret.out = Returned(PyBool(StructurallyValid(input.repo_data)))
            /\ (owner = PyStr(<<>>) \/ name = Absent) => ret.out = Returned(PyBool(FALSE))
            /\ (owner = PyStr(<<"a">>) /\ name = PyStr(<<"b">>)) =>
                  ret.out = Returned(PyBool(TRUE))
            /\ ret.out = Returned(PyBool(validate_agent_repo_data(CoreOf(input.repo_data))))

\* C15 witness: owner "a" and name "b" are accepted in a record that is
\* disabled and names another branch
C15_Witness ==
    /\ ret.op = "validate_agent_repo_data"
    /\ FieldOf(input.repo_data, "owner") = PyStr(<<"a">>)
    /\ FieldOf(input.repo_data, "name") = PyStr(<<"b">>)
    /\ FieldOf(input.repo_data, "enabled") = PyBool(FALSE)
    /\ FieldOf(input.repo_data, "branch") = Master
    /\ ret.out = Returned(PyBool(TRUE))

\* the lines of a text, each trimmed
TrimmedLines(text) ==
    LET ls == Split(text, "\n") IN [i \in 1..Len(ls) |-> Strip(ls[i])]

\* a line that starts with '#', and a '# ' heading line with text
IsHeadingLine(line) == StartsWith(line, <<"#">>)
IsTitleHeading(line) ==
    StartsWith(line, <<"#", " ">>) /\ Strip(SubSeq(line, 3, Len(line))) # <<>>

\* the lines from the first non-empty, non-heading line on
RECURSIVE SkipToRun(_)
SkipToRun(lines) ==
    IF lines # <<>> /\ (Head(lines) = <<>> \/ IsHeadingLine(Head(lines)))
    THEN SkipToRun(Tail(lines))
    ELSE lines

\* the leading non-empty, non-heading lines
RECURSIVE TakeRun(_)
TakeRun(lines) ==
    IF lines # <<>> /\ Head(lines) # <<>> /\ ~IsHeadingLine(Head(lines))
    THEN <<Head(lines)>> \o TakeRun(Tail(lines))
    ELSE <<>>

\* the first contiguous run of non-empty, non-heading lines, joined with
\* single spaces and trimmed
FirstRun(lines) == Strip(Join(TakeRun(SkipToRun(lines)), <<" ">>))

\* the lines after the first '# ' heading line with text, or all lines when
\* there is none
AfterTitle(lines) ==
    IF \E i \in 1..Len(lines) : IsTitleHeading(lines[i])
    THEN LET first == CHOOSE i \in 1..Len(lines) :
                          /\ IsTitleHeading(lines[i])
                          /\ \A j \in 1..(i - 1) : ~IsTitleHeading(lines[j])
         IN  SubSeq(lines, first + 1, Len(lines))
    ELSE lines

\* C17 (description extraction), as claimed: the description is the first
\* contiguous run of non-empty, non-heading lines (after the title heading,
\* or of the whole text), joined with single spaces and trimmed, and empty
\* when there is no such run; no line starting with '#' is part of it.
C17_Description ==
    ret.op = "_parse_agent_markdown" =>
        LET lines == TrimmedLines(input.content) IN
        ret.out.value.description.s \in {FirstRun(AfterTitle(lines)), FirstRun(lines)}

\* the texts of the '# ' heading lines of a text
HeadingTexts(text) ==
    LET lines == TrimmedLines(text) IN
    {Strip(SubSeq(lines[i], 3, Len(lines[i]))) :
        i \in {j \in 1..Len(lines) : IsTitleHeading(lines[j])}}

\* filename without its '.md' extension
StripExtension(filename) ==
    IF EndsWith(filename, DotMd) THEN SubSeq(filename, 1, Len(filename) - 3) ELSE filename

HyphensToSpaces(s) == [i \in 1..Len(s) |-> IF s[i] = "-" THEN " " ELSE s[i]]

\* first letter upper case, the others lower case
Capitalize(word) ==
    [i \in 1..Len(word) |-> IF i = 1 THEN ToUpper(word[i]) ELSE ToLower(word[i])]

\* every word, the words being separated by single spaces, capitalized
TitleWords(s) ==
    LET words == Split(s, " ") IN
    Join([i \in 1..Len(words) |-> Capitalize(words[i])], <<" ">>)

\* C18 (name derivation), as claimed: the name is the trimmed text of a '# '
\* heading line when the text has one with text, and otherwise the filename
\* with its '.md' extension stripped, hyphens replaced by spaces and every
\* word title-cased.
C18_NameDerivation ==
    ret.op = "_parse_agent_markdown" =>
        IF HeadingTexts(input.content) # {}
        THEN ret.out.value.name.s \in HeadingTexts(input.content)
        ELSE ret.out.value.name = PyStr(TitleWords(HyphensToSpaces(
                                            StripExtension(input.filename))))

\* the configuration file could not be loaded
LoadFailed(file) == file.kind \in {"missing", "unreadable", "unparsable"}

\* C19 (a configuration load failure is fatal), as claimed: when the
\* configuration file is missing, unreadable or unparsable, main returns a
\* non-zero exit status and executes no command.
C19_LoadFailureFatal ==
    (ret.op = "main" /\ input.command # None /\ LoadFailed(input.file)) =>
        /\ ret.out.value.status # 0
        /\ ret.out.value.executed = None

-----------------------------------------------------------------------------
(* Further claims about fetch_agent_manifest and fetch_agents_from_repo,
   under SpecFetch *)

\* the entries of a listing that are files named "*.md", and the others
RelevantEntries(items) == {i \in 1..Len(items) : IsMdEntry(items[i])}

\* refs are the entries at the indices idx of items, in order, each with the
\* name, path and download_url of its entry
RefsOfEntries(refs, items, idx) ==
    /\ Len(refs) = Cardinality(idx)
    /\ \E pos \in [1..Len(refs) -> idx] :
          /\ \A j, k \in 1..Len(refs) : j < k => pos[j] < pos[k]
          /\ \A k \in 1..Len(refs) :
                /\ refs[k].name = DictGet(items[pos[k]], "name", None)
                /\ refs[k].path = DictGet(items[pos[k]], "path", None)
                /\ refs[k].download_url = DictGet(items[pos[k]], "download_url", None)

\* C21 (directory listing filter): the file references fetch_agent_manifest
\* returns are the entries of the winning listing whose type is "file" and
\* whose name ends in ".md", in listing order, each with the name, path and
\* download_url of its entry; and every file GET of fetch_agents_from_repo
\* goes to the download_url of such an entry of the winning listing, as the
\* listing gives it, whichever candidate branch won.
C21_ListingFilter ==
    /\ (/\ ret.op = "fetch_agent_manifest"
        /\ ret.out.kind = "return"
        /\ ret.out.value # None) =>
          LET items == AnswerTo(Len(ret.gets)).json.items IN
          RefsOfEntries(ret.out.value.agent_files, items, RelevantEntries(items))
    /\ (ret.op = "fetch_agents_from_repo" /\ FileGets # <<>>) =>
          LET items == WinningListing.json.items IN
          \A i \in 1..Len(FileGets) :
             \E k \in RelevantEntries(items) :
                DictGet(items[k], "download_url", None) = FileGets[i]

\* C21 witness: the listing of the third candidate, develop, won; of its
\* entries a.md, n.txt and b-c.md the two markdown files were downloaded
\* from their own locations
C21_Witness ==
    /\ ret.op = "fetch_agents_from_repo"
    /\ input.repo_data = GoodDefault
    /\ Len(ListingGets) = 3
    /\ ListingGets[3].ref = Develop
    /\ WinningListing = OkJson(MdListing)
    /\ FileGets = <<RawUrl("a"), RawUrl("b")>>
    /\ ret.out.kind = "return"
    /\ Len(ret.out.value) = 2

-----------------------------------------------------------------------------
(* Further claims about the cache *)

\* C22 (cache entries are never partially updated), as claimed, under Spec:
\* after fetch_agent_repos_from_source the cache holds for the URL of the
\* source the payload as fetch_json stored it: the parsed body when the GET
\* succeeded, and the entry found, unchanged, when the call was answered
\* from the cache.
C22_NoInPlaceUpdate ==
    (/\ ret.op = "fetch_agent_repos_from_source"
     /\ Truthy(DictGet(ret.arg, "url", None))) =>
        LET url == DictGet(ret.arg, "url", None) IN
        /\ (ret.gets # <<>> /\ ~IsFailure(ret.answers[1])) =>
              /\ EntryOf(cache, url) # NoEntry
              /\ EntryOf(cache, url).data = ret.answers[1].json
        /\ (ret.gets = <<>> /\ ret.pre # NoEntry) => EntryOf(cache, url) = ret.pre

\* C23 (store on success), under SpecCache: a step in which fetch_json
\* issues a GET that is answered with a JSON body leaves the cache with one
\* entry for the URL, holding the parsed body and the time of the store,
\* whatever entry the URL had before, and with the entries of all other
\* URLs as they were.
C23_Step ==
    (/\ ret'.op = "fetch_json"
     /\ ret'.gets # <<>>
     /\ ~IsFailure(ret'.answer)) =>
        LET cache_key == _get_cache_key(ret'.arg) IN
        /\ DOMAIN cache' = DOMAIN cache \cup {cache_key}
        /\ cache'[cache_key] = [data |-> ret'.answer.json, timestamp |-> now']
        /\ \A k \in DOMAIN cache \ {cache_key} : cache'[k] = cache[k]
        /\ ret'.out = Returned(ret'.answer.json)

C23_StoreOnSuccess == [][C23_Step]_vars

\* C23 witness: a fetch found an expired entry with another payload for the
\* URL and replaced it by the body of its GET, while the other URL keeps an
\* entry of its own
C23_Witness ==
    /\ ret.op = "fetch_json"
    /\ ret.arg = SourceUrl("u1")
    /\ ret.gets = <<SourceUrl("u1")>>
    /\ ret.answer = OkJson(MappingPayload)
    /\ ret.pre # NoEntry
    /\ ret.pre.data = PyDict(<<>>)
    /\ AgeAtLookup >= cache_ttl
    /\ EntryOf(cache, SourceUrl("u1")) = [data |-> MappingPayload, timestamp |-> now]
    /\ EntryOf(cache, SourceUrl("u2")) # NoEntry

-----------------------------------------------------------------------------
(* Every call of the Fetcher that issues GETs, begun and carried through:
   fetch_json, fetch_agent_manifest and fetch_agents_from_repo *)

CallListingResponses ==
    {TransportError, HttpError, OkJson(EmptyListing), OkJson(MdListing)}
CallFileResponses == {TransportError, HttpError, OkText(TextPlain)}

\* a new Fetcher, and a caller that has not called yet
Idle == [op |-> "idle"]

InitCalls ==
    /\ now = 0
    /\ cache = EmptyCache
    /\ input = Idle
    /\ ret = NoCall
    /\ LoopIdle

\* the caller begins one call with its arguments, against a service whose
\* answers are fixed for the length of the call
BeginCall ==
    /\ input = Idle
    /\ \/ \E url \in CacheUrls, resp \in JsonResponses :
            input' = [op |-> "fetch_json", url |-> url, resp |-> resp]
       \/ \E b \in RequestedBranches :
            \E answers \in [1..Len(branch_attempts(b)) -> CallListingResponses] :
               input' = [op |-> "fetch_agent_manifest", repo_owner |-> OwnerA,
                         repo_name |-> NameR, repo_branch |-> b, agents_path |-> AgentsPath,
                         svc |-> ListingService(OwnerA, NameR, AgentsPath, b, answers)]
       \/ \E r \in {GoodA, GoodDefault} :
            \E answers \in [1..Len(branch_attempts(DictGet(r, "branch", Main)))
                               -> FallbackListingResponses] :
               \E files \in [{RawUrl("a"), RawUrl("b")} -> CallFileResponses] :
                  input' = [op |-> "fetch_agents_from_repo", repo_data |-> r,
                            svc |-> LoopService(r, answers, files)]
    /\ UNCHANGED <<now, cache, ret, loopVars>>

\* the call of Fetcher.fetch_json(url) on a new Fetcher
FetchJsonCall ==
    /\ input.op = "fetch_json"
    /\ ret = NoCall
    /\ LET r == fetch_json(cache, now, input.url, input.resp, 0) IN
       /\ cache' = r.cache
       /\ now' = r.now
       /\ ret' = [op |-> "fetch_json", arg |-> input.url, t |-> now,
                  pre |-> EntryOf(cache, input.url),
                  answer |-> IF r.gets = <<>> THEN NoAnswer ELSE input.resp,
                  gets |-> r.gets, out |-> Returned(r.value)]
    /\ UNCHANGED <<input, loopVars>>

\* the body of a method that was called
RunCall == FetchAgentManifest \/ FetchAgentsFromRepo \/ FetchJsonCall

NextCalls == BeginCall \/ NextFetch \/ FetchJsonCall

\* a call has begun and has not returned: the guard of RunCall, whose steps
\* all change ret, so that Begun is ENABLED <<RunCall>>_vars
Begun == input # Idle /\ ret = NoCall

\* a call that has begun runs on, since Python executes the body of the
\* method: weak fairness WF_vars(RunCall), with its ENABLED written as Begun
RunCallFair == []<>(~Begun) \/ []<><<RunCall>>_vars

SpecCalls == InitCalls /\ [][NextCalls]_vars /\ RunCallFair

NoDuplicates(seq) == \A i, j \in 1..Len(seq) : i # j => seq[i] # seq[j]

\* the files listed by the listing that won, if one did
ListedFiles ==
    IF ListingGets # <<>> /\ ContainsMd(WinningListing)
    THEN Cardinality(RelevantEntries(WinningListing.json.items))
    ELSE 0

\* no URL is requested twice in one call, and the GETs of a call are at most
\* one per candidate branch plus one per listed file
C24_Bounded ==
    /\ ret.op = "fetch_json" => Len(ret.gets) <= 1
    /\ ret.op = "fetch_agent_manifest" =>
          /\ NoDuplicates(ret.gets)
          /\ Len(ret.gets) <= Len(CandidatesOf(input.repo_branch))
    /\ ret.op = "fetch_agents_from_repo" =>
          /\ NoDuplicates(ret.gets)
          /\ Len(ListingGets) <= Len(RepoCandidates)
          /\ Len(FileGets) <= ListedFiles
          /\ Len(ret.gets) = Len(ListingGets) + Len(FileGets)
          /\ \A i \in 1..Len(ret.gets) :
                IsFailure(input.svc[ret.gets[i]]) =>
                    \A j \in 1..Len(ret.gets) : j # i => ret.gets[j] # ret.gets[i]

\* C24 (no retries): within one call of fetch_agent_manifest every candidate
\* listing URL is requested at most once, within one call of
\* fetch_agents_from_repo every download_url at most once, within one call
\* of fetch_json at most one GET is issued, a failed GET is not repeated, the
\* GETs for one repository are at most the candidate branches plus the
\* listed files, and every call that has begun returns.
C24_NoRetries ==
    /\ []C24_Bounded
    /\ Begun ~> (ret # NoCall)

\* C24 witness: all five candidates of a repository were requested, four of
\* them failing or empty, and both files of the listing that won failed to
\* download: seven GETs, none repeated, and no agent
C24_Witness ==
    /\ ret.op = "fetch_agents_from_repo"
    /\ input.repo_data = GoodDefault
    /\ Len(ListingGets) = 5
    /\ input.svc[ListingGets[1]] = TransportError
    /\ input.svc[ListingGets[4]] = TransportError
    /\ WinningListing = OkJson(MdListing)
    /\ FileGets = <<RawUrl("a"), RawUrl("b")>>
    /\ input.svc[RawUrl("a")] = TransportError
    /\ input.svc[RawUrl("b")] = HttpError
    /\ Len(ret.gets) = 7
    /\ ret.out = Returned(<<>>)

=============================================================================
